---------------------------- MODULE Spec2Model ----------------------------
(***************************************************************************)
(* A model of karthik.py: the keyword spam classifier (SpamDetector), the  *)
(* result store and log (FileProcessor), the maintenance routines          *)
(* (SystemManager) and the driver main.                                    *)
(*                                                                         *)
(* A Python str is a sequence of characters; a character is a one-letter   *)
(* string, and a character outside ASCII is written by its code point      *)
(* ("U+00A3" is the pound sign).                                           *)
(***************************************************************************)
EXTENDS Integers, Sequences, FiniteSets, TLC

VARIABLES
    text,            \* the message handed to SpamDetector.classify
    spam_threshold,  \* SpamDetector.spam_threshold
    result,          \* the DetectionResult classify returned, or NoResult
    fs,              \* the file system below the working directory: path |-> node
    now,             \* the clock, in ticks (TicksPerSecond to the second)
    calls,           \* history: the calls made so far, with arguments and outcome
    fs_before,       \* history: the file system as the last call found it
    pc,              \* where main is: the step it takes next
    results,         \* main's list of results
    stderr,          \* the lines written to the error stream
    exit_status      \* the process's exit status, or Running

vars == <<text, spam_threshold, result, fs, now, calls, fs_before,
          pc, results, stderr, exit_status>>

(***************************************************************************)
(* Bounds of the model.                                                    *)
(***************************************************************************)
MaxFragments == 3    \* a text is built from at most this many fragments
MaxThreshold == 3    \* thresholds range over -1..MaxThreshold
MaxCalls == 3        \* calls made on the result store in one behaviour
TicksPerSecond == 2  \* resolution of the clock
LongWait == 8        \* days that may pass between two calls
MaxSetups == 2       \* setup_environment calls in one behaviour
MaxRunTicks == 2     \* ticks that pass during one run of main

(***************************************************************************)
(* Characters and the str methods the program calls.                       *)
(***************************************************************************)
UPPER == <<"A","B","C","D","E","F","G","H","I","J","K","L","M","N","O","P","Q","R","S","T","U",
        "V","W","X","Y","Z">>
LOWER == <<"a","b","c","d","e","f","g","h","i","j","k","l","m","n","o","p","q","r","s","t","u",
        "v","w","x","y","z">>
WHITESPACE == {" ", "\n", "\t"}

Range(s) == {s[i] : i \in DOMAIN s}

Last(s) == s[Len(s)]

LowerOf == [c \in Range(UPPER) |-> LOWER[CHOOSE i \in DOMAIN UPPER : UPPER[i] = c]]

\* variant: a comparison that is case-sensitive
lower_unchanged(s) == s

\* str.lower(): every upper-case letter is replaced by its lower-case letter.
lower(s) == [i \in 1..Len(s) |-> IF s[i] \in DOMAIN LowerOf THEN LowerOf[s[i]] ELSE s[i]]

\* str.isupper(): at least one cased character, and no lower-case one.
isupper(s) ==
    /\ \E i \in 1..Len(s) : s[i] \in Range(UPPER)
    /\ \A i \in 1..Len(s) : s[i] \notin Range(LOWER)

\* needle in hay
Contains(needle, hay) ==
    \E i \in 0..(Len(hay) - Len(needle)) :
        \A j \in 1..Len(needle) : hay[i + j] = needle[j]

\* str.count(c) for a single character c
count(s, c) == Cardinality({i \in 1..Len(s) : s[i] = c})

\* str.split(): the maximal runs of non-whitespace characters, in order.
RECURSIVE split_from(_, _, _, _)
split_from(s, i, word, words) ==
    IF i > Len(s)
    THEN IF word = <<>> THEN words ELSE Append(words, word)
    ELSE IF s[i] \in WHITESPACE
         THEN split_from(s, i + 1, <<>>, IF word = <<>> THEN words ELSE Append(words, word))
         ELSE split_from(s, i + 1, Append(word, s[i]), words)

split(s) == split_from(s, 1, <<>>, <<>>)

(***************************************************************************)
(* SpamDetector                                                            *)
(***************************************************************************)
SPAM_INDICATORS == <<
    <<"u","r","g","e","n","t">>, <<"w","i","n","n","e","r">>, <<"p","r","i","z","e">>, <<"r","e",
            "w","a","r","d">>, <<"c","l","a","i","m">>, <<"s","e","l","e","c","t","e","d">>,
    <<"v","a","l","u","e","d"," ","c","u","s","t","o","m","e","r">>, <<"c","a","l","l"," ","n",
            "o","w">>, <<"l","i","m","i","t","e","d"," ","t","i","m","e">>, <<"c","o","n","g",
            "r","a","t","u","l","a","t","i","o","n","s">>,
    <<"a","c","c","o","u","n","t"," ","c","o","m","p","r","o","m","i","s","e","d">>, <<"s","e",
            "c","u","r","i","t","y"," ","a","l","e","r","t">> >>

DefaultThreshold == 2

SPAM == <<"S","P","A","M">>
NOT_SPAM == <<"N","O","T"," ","S","P","A","M">>

NoResult == [classification |-> <<>>, score |-> 0 - 1]

\* indicator.lower() in text.lower()
indicator_matches(indicator, s) == Contains(lower(indicator), lower(s))

\* the loop over SPAM_INDICATORS, from indicator i on, with the score so far
RECURSIVE indicator_loop(_, _, _)
indicator_loop(s, i, score) ==
    IF i > Len(SPAM_INDICATORS) THEN score
    ELSE indicator_loop(s, i + 1,
            IF indicator_matches(SPAM_INDICATORS[i], s) THEN score + 1 ELSE score)

\* variant: the punctuation flag raised by two '!' already
calculate_spam_score_countge(s) ==
    LET s1 == indicator_loop(s, 1, 0)
        s2 == IF count(s, "!") >= 2 THEN s1 + 1 ELSE s1
        caps_words == SelectSeq(split(s), LAMBDA word : Len(word) > 2 /\ isupper(word))
    IN  IF Len(caps_words) > 2 THEN s2 + 1 ELSE s2

calculate_spam_score(s) ==
    LET s1 == indicator_loop(s, 1, 0)
        s2 == IF count(s, "!") > 2 THEN s1 + 1 ELSE s1
        caps_words == SelectSeq(split(s), LAMBDA word : Len(word) > 2 /\ isupper(word))
    IN  IF Len(caps_words) > 2 THEN s2 + 1 ELSE s2

\* variant: SPAM only above the threshold
classify_strict(threshold, s) ==
    LET score == calculate_spam_score(s)
    IN  [classification |-> IF score > threshold THEN SPAM ELSE NOT_SPAM,
         score |-> score]

classify(threshold, s) ==
    LET score == calculate_spam_score(s)
    IN  [classification |-> IF score >= threshold THEN SPAM ELSE NOT_SPAM,
         score |-> score]

\* main's test messages
test_messages == <<
    <<"c","a","l","l"," ","y","o","u"," ","l","a","t","e","r">>,
    <<"H","e","y",","," ","a","r","e"," ","w","e"," ","s","t","i","l","l"," ","o","n"," ","f",
            "o","r"," ","l","u","n","c","h"," ","t","o","d","a","y","?">>,
    <<"U","r","g","e","n","t","!"," ","Y","o","u","r"," ","a","c","c","o","u","n","t"," ","h",
            "a","s"," ","b","e","e","n"," ","c","o","m","p","r","o","m","i","s","e","d","."," ",
            "R","e","p","l","y"," ","n","o","w"," ","t","o"," ","s","e","c","u","r","e"," ","i",
            "t",".">>,
    <<"H","i",","," ","j","u","s","t"," ","c","h","e","c","k","i","n","g"," ","i","n"," ","t",
            "o"," ","s","e","e"," ","h","o","w"," ","y","o","u","'","r","e"," ","d","o","i","n",
            "g",".">>,
    <<"I"," ","H","A","V","E"," ","A"," ","D","A","T","E"," ","O","N"," ","S","U","N","D","A",
            "Y"," ","W","I","T","H"," ","W","I","L","L","!","!">>,
    <<"W","I","N","N","E","R","!","!"," ","A","s"," ","a"," ","v","a","l","u","e","d"," ","n",
            "e","t","w","o","r","k"," ","c","u","s","t","o","m","e","r"," ","y","o","u"," ","h",
            "a","v","e"," ","b","e","e","n"," ","s","e","l","e","c","t","e","d"," ","t","o"," ",
            "r","e","c","e","i","v","e"," ","a"," ","U+00A3","9","0","0"," ","p","r","i","z","e",
            " ","r","e","w","a","r","d","!">> >>

(***************************************************************************)
(* The clock and datetime.strftime.  The clock counts ticks from midnight  *)
(* of 1 January 2024 and stays within that month.                          *)
(***************************************************************************)
SecondsPerDay == 86400
Day == SecondsPerDay * TicksPerSecond

DIGITS == <<"0","1","2","3","4","5","6","7","8","9">>

two_digits(n) == <<DIGITS[(n \div 10) + 1], DIGITS[(n % 10) + 1]>>

DayOfMonth(t) == ((t \div TicksPerSecond) \div SecondsPerDay) + 1
Hour(t) == ((t \div TicksPerSecond) % SecondsPerDay) \div 3600
Minute(t) == ((t \div TicksPerSecond) % 3600) \div 60
Second(t) == (t \div TicksPerSecond) % 60

\* strftime("%Y%m%d_%H%M%S")
strftime_compact(t) ==
    <<"2","0","2","4","0","1">> \o two_digits(DayOfMonth(t)) \o <<"_">>
        \o two_digits(Hour(t)) \o two_digits(Minute(t)) \o two_digits(Second(t))

\* strftime("%Y-%m-%d %H:%M:%S")
strftime_log(t) ==
    <<"2","0","2","4","-","0","1","-">> \o two_digits(DayOfMonth(t)) \o <<" ">>
        \o two_digits(Hour(t)) \o <<":">> \o two_digits(Minute(t)) \o <<":">> \o two_digits(Second(t))

(***************************************************************************)
(* Paths and the file system.  A path string is resolved to its sequence   *)
(* of components; fs maps the component sequences that exist to a node,    *)
(* [kind |-> "dir"] or [kind |-> "file", content |-> ..., mtime |-> ticks].*)
(* The working directory itself (<<>>) always exists.  A call on the file  *)
(* system yields [fs |-> the file system after it, raised |-> the name of  *)
(* the exception it raised, or ""].                                        *)
(***************************************************************************)
path_join(a, b) == a \o <<"/">> \o b

RECURSIVE components_from(_, _, _, _)
components_from(p, i, name, names) ==
    IF i > Len(p)
    THEN IF name = <<>> THEN names ELSE Append(names, name)
    ELSE IF p[i] = "/"
         THEN components_from(p, i + 1, <<>>, IF name = <<>> THEN names ELSE Append(names, name))
         ELSE components_from(p, i + 1, Append(name, p[i]), names)

Components(p) == components_from(p, 1, <<>>, <<>>)

Parent(c) == SubSeq(c, 1, Len(c) - 1)

IsPrefix(a, b) == Len(a) <= Len(b) /\ SubSeq(b, 1, Len(a)) = a

Under(c, d) == Len(c) > Len(d) /\ IsPrefix(d, c)

EmptyCwd == [c \in {} |-> [kind |-> "dir"]]

Exists(f, c) == c = <<>> \/ c \in DOMAIN f
IsDir(f, c) == c = <<>> \/ (c \in DOMAIN f /\ f[c].kind = "dir")
IsFile(f, c) == c \in DOMAIN f /\ f[c].kind = "file"

Ok(f) == [fs |-> f, raised |-> ""]
Raise(f, e) == [fs |-> f, raised |-> e]

Put(f, c, node) == [x \in DOMAIN f \cup {c} |-> IF x = c THEN node ELSE f[x]]
Drop(f, c) == [x \in DOMAIN f \ {c} |-> f[x]]

\* the error of using c when its parent is no directory
ParentError(f, c) ==
    IF \E k \in 0..(Len(c) - 1) : IsFile(f, SubSeq(c, 1, k))
    THEN "NotADirectoryError" ELSE "FileNotFoundError"

\* os.mkdir
mkdir(f, c) ==
    IF ~ IsDir(f, Parent(c)) THEN Raise(f, ParentError(f, c))
    ELSE IF Exists(f, c) THEN Raise(f, "FileExistsError")
    ELSE Ok(Put(f, c, [kind |-> "dir"]))

\* os.makedirs(name, exist_ok=...): the missing parents first, then the leaf;
\* an existing leaf is accepted only with exist_ok, and only if a directory.
RECURSIVE makedirs(_, _, _)
makedirs(f, c, exist_ok) ==
    LET head == Parent(c)
        up == IF head # <<>> /\ ~ Exists(f, head) THEN makedirs(f, head, exist_ok) ELSE Ok(f)
    IN  IF up.raised \notin {"", "FileExistsError"} THEN up
        ELSE LET made == mkdir(up.fs, c)
             IN  IF made.raised # "" /\ (~ exist_ok \/ ~ IsDir(up.fs, c))
                 THEN made ELSE Ok(made.fs)

\* open(path, mode) and one write of data, for mode "w" or "a", at time t
open_write(f, c, data, mode, t) ==
    IF ~ IsDir(f, Parent(c)) THEN Raise(f, ParentError(f, c))
    ELSE IF IsDir(f, c) THEN Raise(f, "IsADirectoryError")
    ELSE Ok(Put(f, c, [kind |-> "file", mtime |-> t,
                content |-> IF mode = "a" /\ IsFile(f, c) THEN f[c].content \o data ELSE data]))

(***************************************************************************)
(* json.dump(data, f, indent=2) for a dict of str and int values, given as *)
(* the sequence of its items.                                              *)
(***************************************************************************)
JSON_ESCAPE ==
    [c \in {"\"", "\\", "\n", "\t", "U+00A3"} |->
        CASE c = "\"" -> <<"\\", "\"">>
          [] c = "\\" -> <<"\\", "\\">>
          [] c = "\n" -> <<"\\", "n">>
          [] c = "\t" -> <<"\\", "t">>
          [] c = "U+00A3" -> <<"\\", "u", "0", "0", "a", "3">>]

\* variant: the string written as it is
json_escape_nothing(s) == s

\* the body of a JSON string (ensure_ascii): quotes, backslashes, control and
\* non-ASCII characters are escaped
RECURSIVE json_escape(_)
json_escape(s) ==
    IF s = <<>> THEN <<>>
    ELSE (IF Head(s) \in DOMAIN JSON_ESCAPE THEN JSON_ESCAPE[Head(s)] ELSE <<Head(s)>>)
            \o json_escape(Tail(s))

RECURSIVE decimal(_)
decimal(n) ==
    IF n < 0 THEN <<"-">> \o decimal(0 - n)
    ELSE IF n < 10 THEN <<DIGITS[n + 1]>>
    ELSE decimal(n \div 10) \o <<DIGITS[(n % 10) + 1]>>

StrValue(s) == [type |-> "str", val |-> s]
IntValue(n) == [type |-> "int", val |-> n]

json_value(v) ==
    IF v.type = "str" THEN <<"\"">> \o json_escape(v.val) \o <<"\"">> ELSE decimal(v.val)

RECURSIVE json_items(_)
json_items(items) ==
    IF items = <<>> THEN <<>>
    ELSE <<"\n"," "," ">> \o <<"\"">> \o json_escape(Head(items).key) \o <<"\"">> \o <<":"," ">>
            \o json_value(Head(items).value)
            \o (IF Len(items) > 1 THEN <<",">> ELSE <<>>) \o json_items(Tail(items))

json_dump(items) ==
    IF items = <<>> THEN <<"{","}">> ELSE <<"{">> \o json_items(items) \o <<"\n","}">>

(***************************************************************************)
(* FileProcessor (base_dir = "data")                                       *)
(***************************************************************************)
base_dir == <<"d","a","t","a">>
input_dir == path_join(base_dir, <<"i","n","p","u","t">>)
output_dir == path_join(base_dir, <<"o","u","t","p","u","t">>)
logs_dir == path_join(base_dir, <<"l","o","g","s">>)

\* save_result at time t: [fs, raised, ret], ret the path returned
save_result(f, t, message, res) ==
    LET timestamp == strftime_compact(t)
        filename == <<"r","e","s","u","l","t","_">> \o timestamp \o <<".","j","s","o","n">>
        filepath == path_join(output_dir, filename)
        data == << [key |-> <<"t","i","m","e","s","t","a","m","p">>, value |-> StrValue(timestamp)],
                   [key |-> <<"m","e","s","s","a","g","e">>, value |-> StrValue(message)],
                   [key |-> <<"c","l","a","s","s","i","f","i","c","a","t","i","o","n">>, value |-> StrValue(res.classification)],
                   [key |-> <<"s","c","o","r","e">>, value |-> IntValue(res.score)] >>
        w == open_write(f, Components(filepath), json_dump(data), "w", t)
    IN  [fs |-> w.fs, raised |-> w.raised, ret |-> filepath]

Dashes(n) == [i \in 1..n |-> "-"]

log_file == path_join(logs_dir, <<"s","y","s","t","e","m","_","l","o","g",".","t","x","t">>)

log_entry(t, operation, details) ==
    <<"[">> \o strftime_log(t) \o <<"]"," ">> \o operation \o <<"\n">>
        \o <<"D","e","t","a","i","l","s",":"," ">> \o details \o <<"\n">>
        \o Dashes(50) \o <<"\n">>

\* variant: the log opened with mode "w"
log_operation_truncating(f, t, operation, details) ==
    open_write(f, Components(log_file), log_entry(t, operation, details), "w", t)

\* log_operation at time t: [fs, raised]
log_operation(f, t, operation, details) ==
    open_write(f, Components(log_file), log_entry(t, operation, details), "a", t)

\* the part of the file system below directory c, by paths relative to c
Subtree(f, c) ==
    [x \in {SubSeq(y, Len(c) + 1, Len(y)) : y \in {z \in DOMAIN f : Under(z, c)}} |-> f[c \o x]]

\* backup_data at time t: a zip of base_dir in the working directory
backup_data(f, t) ==
    LET backup_dir == <<"b","a","c","k","u","p","_">> \o strftime_compact(t)
        archive == backup_dir \o <<".","z","i","p">>
        root == Components(base_dir)
    IN  IF ~ IsDir(f, root)
        THEN [fs |-> f, raised |-> ParentError(f, root \o <<archive>>), ret |-> archive]
        ELSE [fs |-> Put(f, <<archive>>, [kind |-> "file", mtime |-> t,
                                          content |-> [zip |-> Subtree(f, root)]]),
              raised |-> "", ret |-> archive]

(***************************************************************************)
(* SystemManager                                                           *)
(***************************************************************************)
required_dirs == << <<"d","a","t","a">>, <<"d","a","t","a","/","i","n","p","u","t">>, <<"d","a",
        "t","a","/","o","u","t","p","u","t">>, <<"d","a","t","a","/","l","o","g","s">> >>

RECURSIVE setup_loop(_, _, _)
setup_loop(f, i, exist_ok) ==
    IF i > Len(required_dirs) THEN Ok(f)
    ELSE LET made == makedirs(f, Components(required_dirs[i]), exist_ok)
         IN  IF made.raised # "" THEN made ELSE setup_loop(made.fs, i + 1, exist_ok)

\* variant: os.makedirs without exist_ok
setup_environment_not_exist_ok(f) == setup_loop(f, 1, FALSE)

\* setup_environment: [fs, raised]
setup_environment(f) == setup_loop(f, 1, TRUE)

\* the files os.walk(directory) lists, at any depth
FilesUnder(f, d) == {c \in DOMAIN f : Under(c, d) /\ f[c].kind = "file"}

\* The orders in which os.walk can list the files under d: the files of a
\* directory before those of its subdirectories, one subdirectory after another.
WalkOrders(f, d) ==
    LET files == FilesUnder(f, d)
        n == Cardinality(files)
        subdirs == {x \in DOMAIN f : Under(x, d) /\ f[x].kind = "dir"}
    IN  {o \in [1..n -> files] :
            /\ \A i, j \in 1..n : i # j => o[i] # o[j]
            /\ \A i, j \in 1..n : i < j => ~ Under(Parent(o[i]), Parent(o[j]))
            /\ \A sub \in subdirs : \A i, j, k \in 1..n :
                  (i < j /\ j < k /\ Under(o[i], sub) /\ Under(o[k], sub)) => Under(o[j], sub)}

NoFault == [path |-> <<>>, at |-> "none"]

\* variant: a file exactly at the limit counts as old
is_old_inclusive(current_time, mtime, days) == current_time - mtime >= days * Day

\* current_time - os.path.getmtime(file_path) > days * 86400, in ticks
is_old(current_time, mtime, days) == current_time - mtime > days * Day

\* the loop of cleanup_old_files over the files in walk order, from the i-th
\* on; fault names the file whose getmtime or remove raises, if any.
RECURSIVE cleanup_loop(_, _, _, _, _, _)
cleanup_loop(f, order, i, current_time, days, fault) ==
    IF i > Len(order) THEN Ok(f)
    ELSE LET file_path == order[i]
         IN  IF fault.path = file_path /\ fault.at = "getmtime" THEN Raise(f, "OSError")
             ELSE IF is_old(current_time, f[file_path].mtime, days)
                  THEN IF fault.path = file_path /\ fault.at = "remove"
                       THEN Raise(f, "PermissionError")
                       ELSE cleanup_loop(Drop(f, file_path), order, i + 1, current_time, days, fault)
                  ELSE cleanup_loop(f, order, i + 1, current_time, days, fault)

\* cleanup_old_files(directory, days) at time t: [fs, raised]
cleanup_old_files(f, t, directory, days, order, fault) ==
    cleanup_loop(f, order, 1, t, days, fault)

(***************************************************************************)
(* The classifier's specification: a detector is constructed with some     *)
(* threshold, a text is put together from fragments (or is one of main's   *)
(* messages) and classified.                                               *)
(***************************************************************************)
Thresholds == (0 - 1)..MaxThreshold

Fragments == {
    <<"u","r","g","e","n","t"," ">>, <<"W","I","N","N","E","R","!","!"," ">>, <<"w","i","n">>, <<"n",
            "e","r">>, <<"!"," ">>, <<"H","E","Y"," ">>, <<"O","K"," ">>,
    <<"C","l","a","i","m"," ","y","o","u","r"," ","r","e","w","a","r","d","\n">> }

RECURSIVE Concat(_)
Concat(ss) == IF ss = <<>> THEN <<>> ELSE Head(ss) \o Concat(Tail(ss))

Texts ==
    {Concat(parts) : parts \in UNION {[1..n -> Fragments] : n \in 0..MaxFragments}}
        \cup Range(test_messages)

Running == 0 - 1

MainIdle == pc = "idle" /\ results = <<>> /\ stderr = <<>> /\ exit_status = Running

StoreIdle == fs = EmptyCwd /\ now = 0 /\ calls = <<>> /\ fs_before = EmptyCwd /\ MainIdle

InitScore ==
    /\ text \in Texts
    /\ spam_threshold \in Thresholds
    /\ result = NoResult
    /\ StoreIdle

\* result = detector.classify(message)
Classify ==
    /\ result = NoResult
    /\ result' = classify(spam_threshold, text)
    /\ UNCHANGED <<text, spam_threshold, fs, now, calls, fs_before, pc, results, stderr, exit_status>>

\* the caller goes on to its next message, with the same detector
NextMessage ==
    /\ result # NoResult
    /\ text' \in Range(test_messages)
    /\ result' = NoResult
    /\ UNCHANGED <<spam_threshold, fs, now, calls, fs_before, pc, results, stderr, exit_status>>

NextScore == Classify \/ NextMessage

SpecScore == InitScore /\ [][NextScore]_vars

(***************************************************************************)
(* The result store's specification: calls of the FileProcessor and the    *)
(* SystemManager in any order, in an empty working directory or in one an  *)
(* earlier run has left behind.  Each call reads the clock; between two    *)
(* calls no time, one tick or LongWait days pass.                          *)
(***************************************************************************)
EarlierRunSecond == 86398      \* the earlier run was at 23:59:58 on 1 January

EarlierRunAt == EarlierRunSecond * TicksPerSecond

AfterEarlierRun ==
    LET f1 == setup_environment(EmptyCwd).fs
        f2 == save_result(f1, EarlierRunAt, <<"o","l","d"," ","n","e","w","s">>, [classification |-> NOT_SPAM, score |-> 0]).fs
    IN  log_operation(f2, EarlierRunAt, <<"M","e","s","s","a","g","e"," ","C","l","a","s","s",
            "i","f","i","c","a","t","i","o","n">>, <<"M","e","s","s","a","g","e",":"," ","o","l",
            "d"," ","n","e","w","s">>).fs

Elapse == {0, 1, LongWait * Day}

StoreInputs == {
    [message |-> <<"H","i">>, result |-> [classification |-> SPAM, score |-> 12]],
    [message |-> <<"s","a","y"," ","\"","p","r","i","z","e","\""," ","\\"," ","U+00A3","9","\n",
            "!">>, result |-> [classification |-> <<"N","O","T","\t","S","P","A","M">>, score |-> 0 - 3]] }
LogDetails == { <<"M","e","s","s","a","g","e",":"," ","H","i","\n","R","e","s","u","l","t",":",
        " ","D","e","t","e","c","t","i","o","n","R","e","s","u","l","t","(","c","l","a","s","s",
        "i","f","i","c","a","t","i","o","n","=","'","S","P","A","M","'",","," ","s","c","o","r",
        "e","=","1","2",")">> }

ClassifierIdle ==
    text = <<>> /\ spam_threshold = DefaultThreshold /\ result = NoResult /\ MainIdle

InitStore ==
    /\ ClassifierIdle
    /\ fs \in {EmptyCwd, AfterEarlierRun}
    /\ now = EarlierRunAt + 7 * Day
    /\ calls = <<>>
    /\ fs_before = fs

\* the clock is read dt ticks after the previous call
Clock(dt) ==
    /\ dt \in Elapse
    /\ DayOfMonth(now + dt) <= 31
    /\ now' = now + dt

RecordCall(op, args, out) ==
    /\ calls' = Append(calls, [op |-> op, args |-> args, at |-> now', raised |-> out.raised])
    /\ fs_before' = fs
    /\ fs' = out.fs

Record(op, args, out) ==
    /\ RecordCall(op, args, out)
    /\ UNCHANGED <<text, spam_threshold, result, pc, results, stderr, exit_status>>

SetupEnvironment ==
    \E dt \in Elapse :
        /\ Clock(dt)
        /\ Record("setup_environment", <<>>, setup_environment(fs))

SaveResult(message, res) ==
    \E dt \in Elapse :
        /\ Clock(dt)
        /\ LET out == save_result(fs, now', message, res)
           IN  Record("save_result", [message |-> message, result |-> res, ret |-> out.ret], out)

LogOperation(operation, details) ==
    \E dt \in Elapse :
        /\ Clock(dt)
        /\ Record("log_operation", [operation |-> operation, details |-> details],
                  log_operation(fs, now', operation, details))

BackupData ==
    \E dt \in Elapse :
        /\ Clock(dt)
        /\ LET out == backup_data(fs, now')
           IN  Record("backup_data", [ret |-> out.ret], out)

CleanupOldFiles(directory, days, faults) ==
    \E dt \in Elapse :
        /\ Clock(dt)
        /\ \E order \in WalkOrders(fs, Components(directory)) :
              \E fault \in faults \cup {NoFault} :
                  Record("cleanup_old_files",
                         [directory |-> directory, days |-> days, order |-> order, fault |-> fault],
                         cleanup_old_files(fs, now', directory, days, order, fault))

NextStore ==
    /\ Len(calls) < MaxCalls
    /\ \/ SetupEnvironment
       \/ \E input \in StoreInputs : SaveResult(input.message, input.result)
       \/ \E details \in LogDetails : LogOperation(<<"M","e","s","s","a","g","e"," ","C","l","a",
               "s","s","i","f","i","c","a","t","i","o","n">>, details)
       \/ BackupData
       \/ CleanupOldFiles(output_dir, 7, {})

SpecStore == InitStore /\ [][NextStore]_vars

(***************************************************************************)
(* The sweep's specification: one cleanup_old_files call on a tree with    *)
(* files one, two and three levels below data/output and one outside it,   *)
(* each of any of four ages around the limit; the call may meet a file     *)
(* whose getmtime or whose remove raises.                                  *)
(***************************************************************************)
Ages == {6 * Day, 7 * Day, 7 * Day + 1, 8 * Day}

SweepFiles == << <<"d","a","t","a","/","o","u","t","p","u","t","/","a",".","j","s","o","n">>, <<"d",
        "a","t","a","/","o","u","t","p","u","t","/","s","u","b","/","b",".","j","s","o","n">>,
                 <<"d","a","t","a","/","o","u","t","p","u","t","/","s","u","b","/","d","e","e",
                         "p","/","c",".","j","s","o","n">>, <<"d","a","t","a","/","l","o","g",
                         "s","/","s","y","s","t","e","m","_","l","o","g",".","t","x","t">> >>

SweepTree(t, ages) ==
    LET dirs == makedirs(makedirs(setup_environment(EmptyCwd).fs,
                    Components(<<"d","a","t","a","/","o","u","t","p","u","t","/","s","u","b","/",
                            "d","e","e","p">>), TRUE).fs,
                    Components(<<"d","a","t","a","/","o","u","t","p","u","t","/","e","m","p","t",
                            "y">>), TRUE).fs
    IN  [c \in DOMAIN dirs \cup {Components(SweepFiles[i]) : i \in 1..4} |->
            IF c \in DOMAIN dirs THEN dirs[c]
            ELSE [kind |-> "file", content |-> <<>>,
                  mtime |-> t - ages[CHOOSE i \in 1..4 : Components(SweepFiles[i]) = c]]]

InitCleanup ==
    /\ ClassifierIdle
    /\ now = 9 * Day
    /\ \E ages \in [1..4 -> Ages] : fs = SweepTree(now, ages)
    /\ calls = <<>>
    /\ fs_before = fs

Faults(f, directory) ==
    {[path |-> c, at |-> a] : c \in FilesUnder(f, Components(directory)), a \in {"getmtime",
            "remove"}}

NextCleanup ==
    /\ calls = <<>>
    /\ \E directory \in {output_dir, base_dir}, days \in {6, 7} :
          CleanupOldFiles(directory, days, Faults(fs, directory))

SpecCleanup == InitCleanup /\ [][NextCleanup]_vars

Swept == calls # <<>> /\ Last(calls).op = "cleanup_old_files"

Age(f, c) == Last(calls).at - f[c].mtime

(***************************************************************************)
(* The setup's specification: setup_environment called repeatedly, from    *)
(* any state of the working directory in which each of the four paths is   *)
(* absent, a directory or a file, and a result file and a log may exist.   *)
(***************************************************************************)
DirectoryState(kinds, with_result, with_log) ==
    LET old == AfterEarlierRun
        paths == [i \in 1..4 |-> Components(required_dirs[i])]
        result_file == CHOOSE c \in DOMAIN old : Under(c, paths[3])
        log_path == Components(log_file)
    IN  [c \in {paths[i] : i \in {j \in 1..4 : kinds[j] # "absent"}}
                \cup (IF with_result THEN {result_file} ELSE {})
                \cup (IF with_log THEN {log_path} ELSE {}) |->
            IF c \in {result_file, log_path} THEN old[c]
            ELSE IF kinds[CHOOSE i \in 1..4 : paths[i] = c] = "dir" THEN [kind |-> "dir"]
            ELSE [kind |-> "file", content |-> <<>>, mtime |-> 0]]

DirectoryStates ==
    {DirectoryState(kinds, with_result, with_log) :
        kinds \in {k \in [1..4 -> {"absent", "dir", "file"}] :
                      k[1] # "dir" => \A i \in 2..4 : k[i] = "absent"},
        with_result \in BOOLEAN, with_log \in BOOLEAN}

WellFormed(f) == \A c \in DOMAIN f : IsDir(f, Parent(c))

InitSetup ==
    /\ ClassifierIdle
    /\ now = EarlierRunAt + 7 * Day
    /\ fs \in {f \in DirectoryStates : WellFormed(f)}
    /\ calls = <<>>
    /\ fs_before = fs

NextSetup ==
    /\ Len(calls) < MaxSetups
    /\ SetupEnvironment

SpecSetup == InitSetup /\ [][NextSetup]_vars

RequiredDirsExist(f) ==
    \A d \in { <<"d","a","t","a">>, <<"d","a","t","a","/","i","n","p","u","t">>, <<"d","a","t",
            "a","/","o","u","t","p","u","t">>, <<"d","a","t","a","/","l","o","g","s">> } :
        Components(d) \in DOMAIN f /\ f[Components(d)].kind = "dir"

(***************************************************************************)
(* main: one run of the driver, step by step.  A step on the file system   *)
(* may fail for a reason of the environment (fails), raising OSError       *)
(* before it has changed anything; any exception ends the run in the       *)
(* except clause.                                                          *)
(***************************************************************************)
DataIsFile == Put(EmptyCwd, Components(base_dir), [kind |-> "file", content |-> <<>>, mtime |-> 0])

RunStart == EarlierRunAt + 7 * Day

InitMain ==
    /\ text = <<>>
    /\ spam_threshold = DefaultThreshold
    /\ result = NoResult
    /\ fs \in {EmptyCwd, AfterEarlierRun, DataIsFile}
    /\ now = RunStart
    /\ calls = <<>>
    /\ fs_before = fs
    /\ pc = "get_system_info"
    /\ results = <<>>
    /\ stderr = <<>>
    /\ exit_status = Running

MainClock ==
    /\ now' \in {now, now + 1}
    /\ now' <= RunStart + MaxRunTicks

\* variant: the run goes on after the except clause
after_raise_continue(next_pc) == next_pc

\* an exception leaves the try block for the except clause, which exits
after_raise(next_pc) == "exited"

\* a step of main's try block, and the except clause if it raises
MainStep(next_pc, op, args, out) ==
    /\ RecordCall(op, args, out)
    /\ IF out.raised = ""
       THEN /\ pc' = next_pc
            /\ UNCHANGED <<stderr, exit_status>>
       ELSE /\ pc' = after_raise(next_pc)
            /\ stderr' = Append(stderr, <<"E","r","r","o","r",":"," ">> \o out.raised)
            /\ exit_status' = 1

Outcome(fails, out) == IF fails THEN [out EXCEPT !.fs = fs, !.raised = "OSError"] ELSE out

MainGetSystemInfo ==
    /\ pc = "get_system_info"
    /\ MainClock
    /\ \E fails \in BOOLEAN :
          MainStep("setup_environment", "get_system_info", <<>>, Outcome(fails, Ok(fs)))
    /\ UNCHANGED <<text, spam_threshold, result, results>>

MainSetup ==
    /\ pc = "setup_environment"
    /\ MainClock
    /\ \E fails \in BOOLEAN :
          MainStep("classify", "setup_environment", <<>>, Outcome(fails, setup_environment(fs)))
    /\ UNCHANGED <<text, spam_threshold, result, results>>

MainClassify ==
    /\ pc = "classify"
    /\ MainClock
    /\ text' = test_messages[Len(results) + 1]
    /\ result' = classify(spam_threshold, text')
    /\ MainStep("save_result", "classify", [message |-> text'], Ok(fs))
    /\ UNCHANGED <<spam_threshold, results>>

MainSaveResult ==
    /\ pc = "save_result"
    /\ MainClock
    /\ \E fails \in BOOLEAN :
          LET out == Outcome(fails, save_result(fs, now', text, result))
          IN  MainStep("log_operation", "save_result",
                       [message |-> text, result |-> result, ret |-> out.ret], out)
    /\ UNCHANGED <<text, spam_threshold, result, results>>

\* f"Message: {message}\nResult: {result}"
LogDetailsOf(message, res) ==
    <<"M","e","s","s","a","g","e",":"," ">> \o message \o <<"\n","R","e","s","u","l","t",":"," ",
            "D","e","t","e","c","t","i","o","n","R","e","s","u","l","t","(","c","l","a","s","s",
            "i","f","i","c","a","t","i","o","n","=","'">>
        \o res.classification \o <<"'",","," ","s","c","o","r","e","=">> \o decimal(res.score) \o <<")">>

MainLogOperation ==
    /\ pc = "log_operation"
    /\ MainClock
    /\ \E fails \in BOOLEAN :
          LET details == LogDetailsOf(text, result)
              out == Outcome(fails, log_operation(fs, now', <<"M","e","s","s","a","g","e"," ",
                      "C","l","a","s","s","i","f","i","c","a","t","i","o","n">>, details))
          IN  /\ MainStep(IF Len(results) + 1 < Len(test_messages) THEN "classify" ELSE "backup_data",
                          "log_operation",
                          [operation |-> <<"M","e","s","s","a","g","e"," ","C","l","a","s","s",
                                  "i","f","i","c","a","t","i","o","n">>, details |-> details], out)
              /\ results' = IF out.raised = "" THEN Append(results, result) ELSE results
    /\ UNCHANGED <<text, spam_threshold, result>>

MainBackupData ==
    /\ pc = "backup_data"
    /\ MainClock
    /\ \E fails \in BOOLEAN :
          LET out == Outcome(fails, backup_data(fs, now'))
          IN  MainStep("cleanup_old_files", "backup_data", [ret |-> out.ret], out)
    /\ UNCHANGED <<text, spam_threshold, result, results>>

MainCleanup ==
    /\ pc = "cleanup_old_files"
    /\ MainClock
    /\ \E fails \in BOOLEAN, order \in WalkOrders(fs, Components(<<"d","a","t","a","/","o","u",
            "t","p","u","t">>)) :
          MainStep("summary", "cleanup_old_files",
                   [directory |-> <<"d","a","t","a","/","o","u","t","p","u","t">>, days |-> 7, order |-> order, fault |-> NoFault],
                   Outcome(fails, cleanup_old_files(fs, now', <<"d","a","t","a","/","o","u","t",
                           "p","u","t">>, 7, order, NoFault)))
    /\ UNCHANGED <<text, spam_threshold, result, results>>

\* the summary is printed and main returns: the process ends with status 0
MainSummary ==
    /\ pc = "summary"
    /\ pc' = "done"
    /\ exit_status' = 0
    /\ UNCHANGED <<text, spam_threshold, result, fs, now, calls, fs_before, results, stderr>>

NextMain ==
    \/ MainGetSystemInfo
    \/ MainSetup
    \/ MainClassify
    \/ MainSaveResult
    \/ MainLogOperation
    \/ MainBackupData
    \/ MainCleanup
    \/ MainSummary

SpecMain == InitMain /\ [][NextMain]_vars

(***************************************************************************)
(* C1  classify returns SPAM exactly when the score it returns is at least *)
(* the detector's threshold (so a score equal to the threshold is SPAM and *)
(* one below it is NOT SPAM), and that score is calculate_spam_score(text).*)
(***************************************************************************)
C1_SpamIffScoreAtLeastThreshold ==
    result # NoResult =>
        /\ result.classification \in {SPAM, NOT_SPAM}
        /\ result.classification = SPAM <=> result.score >= spam_threshold
        /\ result.score = spam_threshold => result.classification = SPAM
        /\ result.score = spam_threshold - 1 => result.classification = NOT_SPAM
        /\ result.score = calculate_spam_score(text)

\* a text scoring exactly the default threshold was classified
C1_WitnessAtThreshold ==
    /\ result # NoResult
    /\ spam_threshold = DefaultThreshold
    /\ result.score = spam_threshold
    /\ result.classification = SPAM

(***************************************************************************)
(* The score as the specification words it, written without the program's  *)
(* loop: the phrases of the indicator set that occur in the lowercased     *)
(* text, the '!' flag and the upper-case token flag.                       *)
(***************************************************************************)
IndicatorPhrases == Range(SPAM_INDICATORS)

Occurs(p, s) ==
    \E i \in 1..(Len(s) + 1) :
        /\ i + Len(p) - 1 <= Len(s)
        /\ SubSeq(s, i, i + Len(p) - 1) = p

Occurrences(p, s) ==
    Cardinality({i \in 1..(Len(s) + 1) :
        /\ i + Len(p) - 1 <= Len(s)
        /\ SubSeq(s, i, i + Len(p) - 1) = p})

MatchedPhrases(s) == {p \in IndicatorPhrases : Occurs(p, lower(s))}

BangFlag(s) == IF Cardinality({i \in 1..Len(s) : s[i] = "!"}) > 2 THEN 1 ELSE 0

TokenStarts(s) ==
    {i \in 1..Len(s) : s[i] \notin WHITESPACE /\ (i = 1 \/ s[i - 1] \in WHITESPACE)}

TokenAt(s, i) ==
    LET e == CHOOSE k \in i..Len(s) :
                 /\ \A j \in i..k : s[j] \notin WHITESPACE
                 /\ (k = Len(s) \/ s[k + 1] \in WHITESPACE)
    IN  SubSeq(s, i, e)

ShoutedTokens(s) ==
    {i \in TokenStarts(s) : Len(TokenAt(s, i)) > 2 /\ isupper(TokenAt(s, i))}

CapsFlag(s) == IF Cardinality(ShoutedTokens(s)) > 2 THEN 1 ELSE 0

(***************************************************************************)
(* C2  The score of a text is the number of indicator phrases occurring in *)
(* its lowercased form (each counted once), plus 1 for more than two '!',  *)
(* plus 1 for more than two upper-case tokens longer than 2; so it lies in *)
(* 0..14, is k for k phrases and no other trigger, and is 0 (NOT SPAM at   *)
(* threshold 2) for a text with no trigger, the empty string included.     *)
(***************************************************************************)
C2_ScoreIsCountOfTriggers ==
    result # NoResult =>
        LET k == Cardinality(MatchedPhrases(text))
        IN  /\ Cardinality(IndicatorPhrases) = 12
            /\ result.score = k + BangFlag(text) + CapsFlag(text)
            /\ result.score \in 0..14
            /\ (BangFlag(text) = 0 /\ CapsFlag(text) = 0) => result.score = k
            /\ (k = 0 /\ BangFlag(text) = 0 /\ CapsFlag(text) = 0) =>
                  /\ result.score = 0
                  /\ spam_threshold = DefaultThreshold => result.classification = NOT_SPAM
            /\ text = <<>> => result.score = 0

\* a classified text in which a phrase repeats and both flags are raised
C2_WitnessRepeatedPhraseAndFlags ==
    /\ result # NoResult
    /\ \E p \in MatchedPhrases(text) : Occurrences(p, lower(text)) > 1
    /\ BangFlag(text) = 1
    /\ CapsFlag(text) = 1
    /\ result.score = Cardinality(MatchedPhrases(text)) + 2

(***************************************************************************)
(* C3  (as claimed) main's sixth message, classified with threshold 2,     *)
(* matches winner, valued customer, selected, prize and reward, scores at  *)
(* least 5 and is SPAM.                                                    *)
(***************************************************************************)
C3_Claimed_FiveIndicatorsMatch ==
    (result # NoResult /\ text = test_messages[6] /\ spam_threshold = DefaultThreshold) =>
        /\ \A p \in {<<"w","i","n","n","e","r">>, <<"v","a","l","u","e","d"," ","c","u","s","t",
                "o","m","e","r">>, <<"s","e","l","e","c","t","e","d">>, <<"p","r","i","z","e">>, <<"r",
                "e","w","a","r","d">>} :
              indicator_matches(p, text)
        /\ result.score >= 5
        /\ result.classification = SPAM

(***************************************************************************)
(* C3  (amended) main's sixth message, classified with threshold 2,        *)
(* matches exactly the four indicators winner, selected, prize and reward  *)
(* ("valued customer" is no substring of "valued network customer"); its   *)
(* three '!' add 1, so the score is 5 and the classification SPAM.         *)
(***************************************************************************)
C3_FourIndicatorsAndBangs ==
    (result # NoResult /\ text = test_messages[6] /\ spam_threshold = DefaultThreshold) =>
        /\ {p \in IndicatorPhrases : indicator_matches(p, text)}
              = {<<"w","i","n","n","e","r">>, <<"s","e","l","e","c","t","e","d">>, <<"p","r","i",
                      "z","e">>, <<"r","e","w","a","r","d">>}
        /\ ~ indicator_matches(<<"v","a","l","u","e","d"," ","c","u","s","t","o","m","e","r">>, text)
        /\ count(text, "!") = 3
        /\ result.score = 5
        /\ result.score >= 5
        /\ result.classification = SPAM

\* the sixth message was classified by a detector with the default threshold
C3_WitnessSixthMessageClassified ==
    /\ result # NoResult
    /\ text = test_messages[6]
    /\ spam_threshold = DefaultThreshold
    /\ result.classification = SPAM

(***************************************************************************)
(* Reading a result file back: a JSON parser for an object whose values    *)
(* are strings and integers, as json.load reads it.  A parse yields        *)
(* [ok, val, next]: whether it succeeded, the value, and the index after.  *)
(***************************************************************************)
JSON_UNESCAPE == [c \in {"\"", "\\", "/", "n", "t"} |->
    CASE c = "n" -> "\n" [] c = "t" -> "\t" [] OTHER -> c]

JSON_UNICODE == [h \in { <<"0","0","a","3">>, <<"0","0","A","3">> } |-> "U+00A3"]

Failed == [ok |-> FALSE, val |-> <<>>, next |-> 0]

RECURSIVE skip_ws(_, _)
skip_ws(s, i) == IF i <= Len(s) /\ s[i] \in {" ", "\n", "\t", "\r"} THEN skip_ws(s, i + 1) ELSE i

\* the rest of a string whose opening quote has been read
RECURSIVE parse_string_from(_, _, _)
parse_string_from(s, i, acc) ==
    IF i > Len(s) \/ s[i] \in {"\n", "\t"} THEN Failed
    ELSE IF s[i] = "\"" THEN [ok |-> TRUE, val |-> acc, next |-> i + 1]
    ELSE IF s[i] # "\\" THEN parse_string_from(s, i + 1, Append(acc, s[i]))
    ELSE IF i + 1 > Len(s) THEN Failed
    ELSE IF s[i + 1] = "u"
         THEN IF i + 5 <= Len(s) /\ SubSeq(s, i + 2, i + 5) \in DOMAIN JSON_UNICODE
              THEN parse_string_from(s, i + 6, Append(acc, JSON_UNICODE[SubSeq(s, i + 2, i + 5)]))
              ELSE Failed
    ELSE IF s[i + 1] \in DOMAIN JSON_UNESCAPE
         THEN parse_string_from(s, i + 2, Append(acc, JSON_UNESCAPE[s[i + 1]]))
         ELSE Failed

DigitValue(c) == (CHOOSE k \in 1..10 : DIGITS[k] = c) - 1

RECURSIVE parse_digits_from(_, _, _)
parse_digits_from(s, i, acc) ==
    IF i <= Len(s) /\ s[i] \in Range(DIGITS)
    THEN parse_digits_from(s, i + 1, 10 * acc + DigitValue(s[i]))
    ELSE [ok |-> TRUE, val |-> acc, next |-> i]

parse_value(s, i) ==
    IF i > Len(s) THEN Failed
    ELSE IF s[i] = "\""
         THEN LET r == parse_string_from(s, i + 1, <<>>)
              IN  [ok |-> r.ok, val |-> StrValue(r.val), next |-> r.next]
    ELSE IF s[i] = "-" /\ i + 1 <= Len(s) /\ s[i + 1] \in Range(DIGITS)
         THEN LET r == parse_digits_from(s, i + 1, 0)
              IN  [ok |-> TRUE, val |-> IntValue(0 - r.val), next |-> r.next]
    ELSE IF s[i] \in Range(DIGITS)
         THEN LET r == parse_digits_from(s, i, 0)
              IN  [ok |-> TRUE, val |-> IntValue(r.val), next |-> r.next]
    ELSE Failed

\* the members of an object from index i on, items being those read so far
RECURSIVE parse_members(_, _, _)
parse_members(s, i, items) ==
    IF i > Len(s) \/ s[i] # "\"" THEN Failed
    ELSE LET k == parse_string_from(s, i + 1, <<>>)
             colon == skip_ws(s, k.next)
         IN  IF ~ k.ok \/ colon > Len(s) \/ s[colon] # ":" THEN Failed
             ELSE LET v == parse_value(s, skip_ws(s, colon + 1))
                      after == skip_ws(s, v.next)
                      got == Append(items, [key |-> k.val, value |-> v.val])
                  IN  IF ~ v.ok \/ after > Len(s) THEN Failed
                      ELSE IF s[after] = "," THEN parse_members(s, skip_ws(s, after + 1), got)
                      ELSE IF s[after] = "}" /\ skip_ws(s, after + 1) > Len(s)
                           THEN [ok |-> TRUE, val |-> got, next |-> Len(s) + 1]
                           ELSE Failed

\* json.load of a whole file holding one object: [ok, val], val the items
json_load(s) ==
    LET open == skip_ws(s, 1)
    IN  IF open > Len(s) \/ s[open] # "{" THEN Failed
        ELSE LET first == skip_ws(s, open + 1)
             IN  IF first <= Len(s) /\ s[first] = "}" /\ skip_ws(s, first + 1) > Len(s)
                 THEN [ok |-> TRUE, val |-> <<>>, next |-> Len(s) + 1]
                 ELSE parse_members(s, first, <<>>)

Keys(items) == {items[i].key : i \in DOMAIN items}
ValueOf(items, key) == items[CHOOSE i \in DOMAIN items : items[i].key = key].value

Saves == SelectSeq(calls, LAMBDA c : c.op = "save_result" /\ c.raised = "")

(***************************************************************************)
(* C4  (as claimed) Every save_result call writes to a file of its own:    *)
(* the paths returned by the successful calls are pairwise different, no   *)
(* call writes to a path that held a file before it, and as long as no     *)
(* cleanup has run the output directory holds a file for every call.       *)
(***************************************************************************)
C4_Claimed_EverySaveHasItsOwnFile ==
    /\ \A i, j \in 1..Len(Saves) : i # j => Saves[i].args.ret # Saves[j].args.ret
    /\ (calls # <<>> /\ Last(calls).op = "save_result" /\ Last(calls).raised = "") =>
          ~ Exists(fs_before, Components(Last(calls).args.ret))
    /\ (\A i \in 1..Len(calls) : calls[i].op # "cleanup_old_files") =>
          Cardinality(FilesUnder(fs, Components(output_dir))) >= Len(Saves)

(***************************************************************************)
(* C5  Round trip: right after a save_result call, the file at the path it *)
(* returned parses as a JSON object with exactly the four fields timestamp,*)
(* message, classification and score; message, classification and score    *)
(* are the values passed, and the timestamp is the one in the file's name  *)
(* result_<timestamp>.json.                                                *)
(***************************************************************************)
C5_SavedRecordReadsBack ==
    (calls # <<>> /\ Last(calls).op = "save_result" /\ Last(calls).raised = "") =>
        LET call == Last(calls).args
            path == Components(call.ret)
        IN  /\ IsFile(fs, path)
            /\ LET read == json_load(fs[path].content)
               IN  /\ read.ok
                   /\ Len(read.val) = 4
                   /\ Keys(read.val) = { <<"t","i","m","e","s","t","a","m","p">>, <<"m","e","s",
                           "s","a","g","e">>, <<"c","l","a","s","s","i","f","i","c","a","t","i",
                           "o","n">>, <<"s","c","o","r","e">> }
                   /\ ValueOf(read.val, <<"m","e","s","s","a","g","e">>) = StrValue(call.message)
                   /\ ValueOf(read.val, <<"c","l","a","s","s","i","f","i","c","a","t","i","o",
                           "n">>) = StrValue(call.result.classification)
                   /\ ValueOf(read.val, <<"s","c","o","r","e">>) = IntValue(call.result.score)
                   /\ ValueOf(read.val, <<"t","i","m","e","s","t","a","m","p">>).type = "str"
                   /\ call.ret = <<"d","a","t","a","/","o","u","t","p","u","t","/","r","e","s",
                           "u","l","t","_">> \o ValueOf(read.val, <<"t","i","m","e","s","t","a",
                           "m","p">>).val \o <<".","j","s","o","n">>

\* a message with a quote, a backslash, a newline and a pound sign was saved,
\* with a negative score
C5_WitnessAwkwardMessageSaved ==
    /\ calls # <<>>
    /\ Last(calls).op = "save_result"
    /\ Last(calls).raised = ""
    /\ {"\"", "\\", "\n", "U+00A3"} \subseteq Range(Last(calls).args.message)
    /\ Last(calls).args.result.score < 0
    /\ json_load(fs[Components(Last(calls).args.ret)].content).ok

(***************************************************************************)
(* C6  The log is append-only.  Every step leaves the log's content a      *)
(* prefix of what it is afterwards; a log_operation call appends exactly   *)
(* one entry (timestamp line with the operation, details line, separator   *)
(* line); setup_environment, save_result, backup_data and cleanup_old_files*)
(* on data/output leave the log as it is; so the log always is what the    *)
(* run found followed by the entries of its log_operation calls, in call   *)
(* order.                                                                  *)
(***************************************************************************)
LogContent(f) ==
    IF IsFile(f, Components(<<"d","a","t","a","/","l","o","g","s","/","s","y","s","t","e","m",
            "_","l","o","g",".","t","x","t">>))
    THEN f[Components(<<"d","a","t","a","/","l","o","g","s","/","s","y","s","t","e","m","_","l",
            "o","g",".","t","x","t">>)].content ELSE <<>>

ExpectedEntry(call) ==
    <<"[">> \o strftime_log(call.at) \o <<"]"," ">> \o call.args.operation \o <<"\n">>
        \o <<"D","e","t","a","i","l","s",":"," ">> \o call.args.details \o <<"\n">>
        \o <<"-","-","-","-","-","-","-","-","-","-","-","-","-","-","-","-","-","-","-","-","-",
                "-","-","-","-","-","-","-","-","-","-","-","-","-","-","-","-","-","-","-","-",
                "-","-","-","-","-","-","-","-","-","\n">>

RECURSIVE ExpectedEntries(_)
ExpectedEntries(cs) ==
    IF cs = <<>> THEN <<>>
    ELSE (IF Head(cs).op = "log_operation" /\ Head(cs).raised = ""
          THEN ExpectedEntry(Head(cs)) ELSE <<>>) \o ExpectedEntries(Tail(cs))

C6_LogStep ==
    /\ IsPrefix(LogContent(fs), LogContent(fs'))
    /\ calls' # calls =>
          IF Last(calls').op = "log_operation" /\ Last(calls').raised = ""
          THEN LogContent(fs') = LogContent(fs) \o ExpectedEntry(Last(calls'))
          ELSE LogContent(fs') = LogContent(fs)

C6_LogInOrder ==
    \E found \in {EmptyCwd, AfterEarlierRun} :
        LogContent(fs) = LogContent(found) \o ExpectedEntries(calls)

C6_LogIsAppendOnly == [][C6_LogStep]_vars /\ []C6_LogInOrder

\* two entries were appended to a log that held one, and a cleanup has
\* deleted the earlier run's result file
C6_WitnessAppendedTwice ==
    /\ Len(SelectSeq(calls, LAMBDA c : c.op = "log_operation" /\ c.raised = "")) = 2
    /\ Len(LogContent(fs)) > Len(ExpectedEntries(calls))
    /\ \E i \in 1..Len(calls) : calls[i].op = "cleanup_old_files"
    /\ FilesUnder(fs, Components(output_dir)) = {}

(***************************************************************************)
(* C7  When cleanup_old_files(directory, days) returns without an error, a *)
(* file anywhere below directory is gone exactly if its age at the call    *)
(* was more than days * 86400 seconds (a file exactly that old stays), and *)
(* every other file and every directory is as it was.                      *)
(***************************************************************************)
C7_DeletedIffOlderThanLimit ==
    (Swept /\ Last(calls).raised = "") =>
        LET d == Components(Last(calls).args.directory)
            limit == Last(calls).args.days * 86400 * TicksPerSecond
        IN  /\ DOMAIN fs \subseteq DOMAIN fs_before
            /\ \A c \in DOMAIN fs : fs[c] = fs_before[c]
            /\ \A c \in DOMAIN fs_before :
                  IF fs_before[c].kind = "file" /\ Under(c, d)
                  THEN c \notin DOMAIN fs <=> Age(fs_before, c) > limit
                  ELSE c \in DOMAIN fs

\* a sweep of data/output with days = 7 has deleted the file three levels
\* down (8 days old) and kept the six days old one, the one exactly 7 days
\* old and the 8 days old log outside the directory
C7_WitnessDeepFileDeleted ==
    /\ Swept
    /\ Last(calls).raised = ""
    /\ Last(calls).args.directory = output_dir
    /\ Last(calls).args.days = 7
    /\ Age(fs_before, Components(SweepFiles[3])) = 8 * Day
    /\ ~ Exists(fs, Components(SweepFiles[3]))
    /\ Age(fs_before, Components(SweepFiles[2])) = 6 * Day
    /\ Age(fs_before, Components(SweepFiles[1])) = 7 * Day
    /\ Age(fs_before, Components(SweepFiles[4])) = 8 * Day
    /\ \A i \in {1, 2, 4} : IsFile(fs, Components(SweepFiles[i]))

(***************************************************************************)
(* C8  (as claimed) An error on one file does not abort the sweep: after   *)
(* the call, every other file below the directory that was older than the  *)
(* limit has been deleted.                                                 *)
(***************************************************************************)
C8_Claimed_ErrorDoesNotAbortSweep ==
    Swept =>
        LET d == Components(Last(calls).args.directory)
            limit == Last(calls).args.days * 86400 * TicksPerSecond
        IN  \A c \in FilesUnder(fs_before, d) :
                (c # Last(calls).args.fault.path /\ Age(fs_before, c) > limit) =>
                    c \notin DOMAIN fs

(***************************************************************************)
(* C9  main runs setup_environment, then classify, save_result and         *)
(* log_operation for each message in turn, then backup_data, then          *)
(* cleanup_old_files.  If a step raises, no later step runs, one line goes *)
(* to the error stream and the exit status is 1; the status is 0 only if   *)
(* every step has run without raising.                                     *)
(***************************************************************************)
RECURSIVE PerMessage(_)
PerMessage(n) ==
    IF n = 0 THEN <<>> ELSE PerMessage(n - 1) \o <<"classify", "save_result", "log_operation">>

ExpectedSteps ==
    <<"get_system_info", "setup_environment">> \o PerMessage(6)
        \o <<"backup_data", "cleanup_old_files">>

StepsTaken == [k \in 1..Len(calls) |-> calls[k].op]

C9_RunInvariant ==
    /\ IsPrefix(StepsTaken, ExpectedSteps)
    /\ \A k \in 1..Len(calls) :
          /\ calls[k].raised # "" => k = Len(calls)
          /\ calls[k].op \in {"classify", "save_result"} =>
                calls[k].args.message = test_messages[((k - 3) \div 3) + 1]
    /\ exit_status \in {Running, 0, 1}
    /\ (calls # <<>> /\ Last(calls).raised # "") =>
          (exit_status = 1 /\ Len(stderr) = 1)
    /\ exit_status = 1 =>
          (calls # <<>> /\ Last(calls).raised # "" /\ Len(stderr) = 1)
    /\ exit_status = 0 =>
          /\ StepsTaken = ExpectedSteps
          /\ \A k \in 1..Len(calls) : calls[k].raised = ""
          /\ stderr = <<>>
    /\ exit_status = Running => stderr = <<>>

\* a process that has exited takes no further step
C9_NoStepAfterExit == exit_status = Running

C9_MainStopsAtFirstError == []C9_RunInvariant /\ [][C9_NoStepAfterExit]_vars

\* save_result raised for the third message, after two messages were
\* processed in full, and the run ended with status 1
C9_WitnessFailedMidway ==
    /\ exit_status = 1
    /\ Len(stderr) = 1
    /\ Len(results) = 2
    /\ Last(calls).op = "save_result"
    /\ Last(calls).args.message = test_messages[3]
    /\ Last(calls).raised # ""

(***************************************************************************)
(* C10 (as claimed) From any state of the working directory, after a call  *)
(* of setup_environment the four directories exist, and a second call      *)
(* raises nothing and changes nothing.                                     *)
(***************************************************************************)
C10_Claimed_DirsExistAfterAnyCall ==
    (calls # <<>> /\ Last(calls).op = "setup_environment") =>
        /\ RequiredDirsExist(fs)
        /\ Len(calls) >= 2 => (Last(calls).raised = "" /\ fs = fs_before)

(***************************************************************************)
(* C10 (amended) From any state of the working directory, after a call of  *)
(* setup_environment that returns without an error the four directories    *)
(* exist and everything that existed before is unchanged; a second call    *)
(* then raises nothing and leaves every directory and file as it is.       *)
(***************************************************************************)
C10_SetupIsIdempotent ==
    (calls # <<>> /\ Last(calls).op = "setup_environment") =>
        /\ Last(calls).raised = "" =>
              /\ RequiredDirsExist(fs)
              /\ \A c \in DOMAIN fs_before : c \in DOMAIN fs /\ fs[c] = fs_before[c]
        /\ (Len(calls) >= 2 /\ calls[Len(calls) - 1].op = "setup_environment"
                /\ calls[Len(calls) - 1].raised = "") =>
              (Last(calls).raised = "" /\ fs = fs_before)

\* a second call has returned, in a directory that holds a result file and a log
C10_WitnessSecondCall ==
    /\ Len(calls) = 2
    /\ \A i \in 1..2 : calls[i].op = "setup_environment" /\ calls[i].raised = ""
    /\ FilesUnder(fs, Components(output_dir)) # {}
    /\ IsFile(fs, Components(log_file))
    /\ fs = fs_before

====
